---------------------------- MODULE Spec2Model ----------------------------
(***************************************************************************)
(* The request authorization gateway of src/middleware.ts.                 *)
(*                                                                         *)
(* A JavaScript string is a sequence of one-character strings, so that     *)
(* startsWith, endsWith, includes and substring are computed character by  *)
(* character, as the runtime computes them.  A nullable value is <<>>      *)
(* (null) or <<v>>.  Permission names, role tags, header names and the     *)
(* texts the gateway only writes are atoms: the code compares them by      *)
(* equality alone.                                                         *)
(***************************************************************************)
EXTENDS Naturals, Sequences, FiniteSets

VARIABLES
    ROUTE_PERMISSIONS,    \* the Permission Table imported from '@/lib/auth'
    pathname,             \* request.nextUrl.pathname of the last request
    authorization,        \* request.headers.get('authorization')
    auth_token,           \* request.cookies.get('auth_token')?.value
    token,                \* the local `token` where the last operation left it
    verifyCalls,          \* the calls made to TokenManager.verifyToken
    response,             \* what middleware returned
    requiredPermissions,  \* what getRoutePermissions returned
    op                    \* the operation that produced this state

vars == <<ROUTE_PERMISSIONS, pathname, authorization, auth_token, token,
          verifyCalls, response, requiredPermissions, op>>

----------------------------------------------------------------------------
(* Bounds of the model. *)

\* longest suffix appended to a base path
MaxSuffix == 1

\* most entries in the Permission Table
MaxTable == 2

----------------------------------------------------------------------------
(* Nullable values and the string built-ins the code calls. *)

None == <<>>

Some(v) == <<v>>

startsWith(s, prefix) ==
    /\ Len(prefix) <= Len(s)
    /\ SubSeq(s, 1, Len(prefix)) = prefix

endsWith(s, suffix) ==
    /\ Len(suffix) <= Len(s)
    /\ SubSeq(s, Len(s) - Len(suffix) + 1, Len(s)) = suffix

includes(s, part) ==
    \E i \in 0..Len(s) :
        /\ i + Len(part) <= Len(s)
        /\ SubSeq(s, i + 1, i + Len(part)) = part

substring(s, start) == SubSeq(s, start + 1, Len(s))

\* JavaScript truthiness of a nullable string: null and '' are falsy
Falsy(v) == v = None \/ v[1] = <<>>

----------------------------------------------------------------------------
(* Configuration. *)

PUBLIC_ROUTES == <<
    <<"/">>,
    <<"/", "h", "e", "l", "p">>,
    <<"/", "a", "p", "i", "/", "a", "u", "t", "h", "/", "l", "o", "g", "i", "n">>,
    <<"/", "a", "p", "i", "/", "a", "u", "t", "h", "/", "r", "e", "g", "i", "s", "t", "e", "r">>,
    <<"/", "a", "p", "i", "/", "a", "u", "t", "h", "/", "r", "e", "f", "r", "e", "s", "h">>,
    <<"/", "w", "o", "r", "k", "e", "r", "s", "/", "r", "e", "g", "i", "s", "t", "e", "r">>,
    <<"/", "_", "n", "e", "x", "t">>,
    <<"/", "f", "a", "v", "i", "c", "o", "n", ".", "i", "c", "o">> >>

AUTH_ONLY_ROUTES == <<
    <<"/", "a", "p", "i", "/", "a", "u", "t", "h", "/", "v", "e", "r", "i", "f", "y">> >>

\* config.matcher: '/((?!_next/static|_next/image|favicon.ico|public).*)'.
\* The negative lookahead stands right after the leading '/'; the '.' of
\* favicon.ico is the regular expression's any-character.
matcher(p) ==
    /\ startsWith(p, <<"/">>)
    /\ LET rest == substring(p, 1) IN
        /\ ~startsWith(rest, <<"_", "n", "e", "x", "t", "/", "s", "t", "a", "t", "i", "c">>)
        /\ ~startsWith(rest, <<"_", "n", "e", "x", "t", "/", "i", "m", "a", "g", "e">>)
        /\ ~( /\ startsWith(rest, <<"f", "a", "v", "i", "c", "o", "n">>)
              /\ Len(rest) >= 11
              /\ SubSeq(rest, 9, 11) = <<"i", "c", "o">> )
        /\ ~startsWith(rest, <<"p", "u", "b", "l", "i", "c">>)

----------------------------------------------------------------------------
(* Responses. *)

NextResponse_next(headers) ==
    [kind |-> "next", status |-> 200, error |-> "", headers |-> headers,
     location |-> "", redirect |-> None]

NextResponse_json(error, status) ==
    [kind |-> "json", status |-> status, error |-> error, headers |-> {},
     location |-> "", redirect |-> None]

\* NextResponse.redirect(url): url.pathname and the value url.searchParams
\* holds under 'redirect' (null when the parameter was not set)
NextResponse_redirect(location, redirect) ==
    [kind |-> "redirect", status |-> 307, error |-> "", headers |-> {},
     location |-> location, redirect |-> redirect]

\* the three response.headers.set calls
userHeaders(payload) ==
    { <<"x-user-id", payload.userId>>,
      <<"x-user-role", payload.role>>,
      <<"x-user-email", payload.email>> }

----------------------------------------------------------------------------
(* getDashboardUrl *)

getDashboardUrl(role) ==
    CASE role = "worker" -> "/workers/dashboard"
      [] role = "doctor" -> "/doctors"
      [] role = "admin" -> "/admin"
      [] OTHER -> "/"

----------------------------------------------------------------------------
(* getRoutePermissions *)

\* the for loop over Object.entries(ROUTE_PERMISSIONS): the index of the first
\* entry, from i on, whose key is a prefix of pathname; 0 when there is none
RECURSIVE patternMatch(_, _)
patternMatch(path, i) ==
    IF i > Len(ROUTE_PERMISSIONS) THEN 0
    ELSE IF startsWith(path, ROUTE_PERMISSIONS[i].route) THEN i
    ELSE patternMatch(path, i + 1)

\* a faulty variant: the documents test is missing
apiRoutePatterns_noDocuments(path) ==
    IF startsWith(path, <<"/", "a", "p", "i", "/", "w", "o", "r", "k", "e", "r", "s", "/">>)
    THEN <<"read:own_profile", "read:patient_profiles">>
    ELSE IF startsWith(path, <<"/", "a", "p", "i", "/", "d", "o", "c", "t", "o", "r", "s", "/">>)
    THEN <<"read:patient_profiles">>
    ELSE IF startsWith(path, <<"/", "a", "p", "i", "/", "a", "d", "m", "i", "n", "/">>)
    THEN <<"read:all_users">>
    ELSE <<>>

\* the API route patterns and the default
apiRoutePatterns(path) ==
    IF startsWith(path, <<"/", "a", "p", "i", "/", "w", "o", "r", "k", "e", "r", "s", "/">>)
    THEN IF includes(path, <<"/", "d", "o", "c", "u", "m", "e", "n", "t", "s">>)
         THEN <<"read:own_documents", "read:patient_documents">>
         ELSE <<"read:own_profile", "read:patient_profiles">>
    ELSE IF startsWith(path, <<"/", "a", "p", "i", "/", "d", "o", "c", "t", "o", "r", "s", "/">>)
    THEN <<"read:patient_profiles">>
    ELSE IF startsWith(path, <<"/", "a", "p", "i", "/", "a", "d", "m", "i", "n", "/">>)
    THEN <<"read:all_users">>
    ELSE <<>>

\* a faulty variant: the exact-match lookup is missing
getRoutePermissions_noExact(path) ==
    IF patternMatch(path, 1) # 0
    THEN ROUTE_PERMISSIONS[patternMatch(path, 1)].permissions
    ELSE apiRoutePatterns(path)

getRoutePermissions(path) ==
    LET exact == { i \in DOMAIN ROUTE_PERMISSIONS :
                       ROUTE_PERMISSIONS[i].route = path }
    IN  IF exact # {}
        THEN ROUTE_PERMISSIONS[CHOOSE i \in exact : TRUE].permissions
        ELSE IF patternMatch(path, 1) # 0
        THEN ROUTE_PERMISSIONS[patternMatch(path, 1)].permissions
        ELSE apiRoutePatterns(path)

----------------------------------------------------------------------------
(* middleware *)

isStaticFile(path) ==
    \/ includes(path, <<"_", "n", "e", "x", "t">>)
    \/ includes(path, <<"f", "a", "v", "i", "c", "o", "n">>)
    \/ endsWith(path, <<".", "j", "s">>)
    \/ endsWith(path, <<".", "c", "s", "s">>)
    \/ endsWith(path, <<".", "p", "n", "g">>)
    \/ endsWith(path, <<".", "j", "p", "g">>)
    \/ endsWith(path, <<".", "s", "v", "g">>)

\* a faulty variant: only the equality test
isPublicRoute_exactOnly(path) ==
    \E i \in DOMAIN PUBLIC_ROUTES : path = PUBLIC_ROUTES[i]

\* a faulty variant: the entry '/' matches by equality only
isPublicRoute_rootExact(path) ==
    \E i \in DOMAIN PUBLIC_ROUTES :
        \/ path = PUBLIC_ROUTES[i]
        \/ PUBLIC_ROUTES[i] # <<"/">> /\ startsWith(path, PUBLIC_ROUTES[i])

isPublicRoute(path) ==
    \E i \in DOMAIN PUBLIC_ROUTES :
        path = PUBLIC_ROUTES[i] \/ startsWith(path, PUBLIC_ROUTES[i])

isAuthOnlyRoute(path) ==
    \E i \in DOMAIN AUTH_ONLY_ROUTES :
        path = AUTH_ONLY_ROUTES[i] \/ startsWith(path, AUTH_ONLY_ROUTES[i])

\* a faulty variant: the cookie is preferred to the header
extractToken_cookieFirst(authHeader, cookie) ==
    IF ~Falsy(cookie) THEN cookie
    ELSE IF ~Falsy(authHeader) /\ startsWith(authHeader[1], <<"B", "e", "a", "r", "e", "r", " ">>)
    THEN Some(substring(authHeader[1], 7))
    ELSE None

\* "Get token from header or cookie"
extractToken(authHeader, cookie) ==
    IF ~Falsy(authHeader) /\ startsWith(authHeader[1], <<"B", "e", "a", "r", "e", "r", " ">>)
    THEN Some(substring(authHeader[1], 7))
    ELSE IF Falsy(cookie) THEN None ELSE cookie

loginRedirect(path) == NextResponse_redirect("/auth/login", Some(path))

Returned(resp, tok, calls) ==
    [response |-> resp, token |-> tok, verifyCalls |-> calls]

\* middleware(request), where verdict is what TokenManager.verifyToken
\* returns if it is called: null or a payload
middleware(path, authHeader, cookie, verdict) ==
    IF isStaticFile(path) THEN Returned(NextResponse_next({}), None, <<>>)
    ELSE IF isPublicRoute(path) THEN Returned(NextResponse_next({}), None, <<>>)
    ELSE
    LET tok == extractToken(authHeader, cookie) IN
    IF Falsy(tok)
    THEN IF startsWith(path, <<"/", "a", "p", "i", "/">>)
         THEN Returned(NextResponse_json("Authentication required", 401), tok, <<>>)
         ELSE Returned(loginRedirect(path), tok, <<>>)
    ELSE
    LET calls == << [token |-> tok[1], result |-> verdict] >> IN
    IF verdict = None
    THEN IF startsWith(path, <<"/", "a", "p", "i", "/">>)
         THEN Returned(NextResponse_json("Invalid or expired token", 401), tok, calls)
         ELSE Returned(loginRedirect(path), tok, calls)
    ELSE
    LET payload == verdict[1] IN
    IF isAuthOnlyRoute(path)
    THEN Returned(NextResponse_next(userHeaders(payload)), tok, calls)
    ELSE
    LET required == getRoutePermissions(path)
        hasPermission == \E i \in DOMAIN required :
                             required[i] \in payload.permissions
    IN  IF Len(required) > 0 /\ ~hasPermission
        THEN IF startsWith(path, <<"/", "a", "p", "i", "/">>)
             THEN Returned(NextResponse_json("Insufficient permissions", 403), tok, calls)
             ELSE Returned(NextResponse_redirect(getDashboardUrl(payload.role), None),
                           tok, calls)
        ELSE Returned(NextResponse_next(userHeaders(payload)), tok, calls)

\* whether middleware gets as far as calling TokenManager.verifyToken
callsVerifier(path, authHeader, cookie) ==
    /\ ~isStaticFile(path)
    /\ ~isPublicRoute(path)
    /\ ~Falsy(extractToken(authHeader, cookie))

----------------------------------------------------------------------------
(* The inputs. *)

SuffixChars == { "/", "x" }

Suffixes == UNION { [1..n -> SuffixChars] : n \in 0..MaxSuffix }

BasePaths == {
    <<"/">>,
    <<"/", "h", "e", "l", "p">>,
    <<"/", "a", "p", "i", "/", "a", "u", "t", "h", "/", "l", "o", "g", "i", "n">>,
    <<"/", "a", "p", "i", "/", "a", "u", "t", "h", "/", "v", "e", "r", "i", "f", "y">>,
    <<"/", "a", "p", "i", "/", "w", "o", "r", "k", "e", "r", "s", "/", "4", "2">>,
    <<"/", "a", "p", "i", "/", "w", "o", "r", "k", "e", "r", "s", "/", "4", "2", "/", "d", "o", "c", "u", "m", "e", "n", "t", "s">>,
    <<"/", "a", "p", "i", "/", "d", "o", "c", "t", "o", "r", "s", "/", "7">>,
    <<"/", "a", "p", "i", "/", "a", "d", "m", "i", "n", "/", "s", "t", "a", "t", "s">>,
    <<"/", "a", "p", "i", "/", "r", "e", "c", "o", "r", "d", "s">>,
    <<"/", "a", "d", "m", "i", "n">>,
    <<"/", "w", "o", "r", "k", "e", "r", "s", "/", "d", "a", "s", "h", "b", "o", "a", "r", "d">>,
    <<"/", "w", "o", "r", "k", "e", "r", "s", "/", "r", "e", "g", "i", "s", "t", "e", "r">>,
    <<"/", "d", "o", "c", "t", "o", "r", "s">>,
    <<"/", "r", "e", "c", "o", "r", "d", "s">>,
    <<"/", "_", "n", "e", "x", "t", "/", "d", "a", "t", "a">>,
    <<"/", "_", "n", "e", "x", "t", "/", "s", "t", "a", "t", "i", "c">>,
    <<"/", "i", "m", "g", "/", "f", "a", "v", "i", "c", "o", "n">>,
    <<"/", "f", "a", "v", "i", "c", "o", "n", ".", "i", "c", "o">>,
    <<"/", "p", "u", "b", "l", "i", "c">>,
    <<"/", "a", "p", "p", ".", "j", "s">>,
    <<"/", "s", "i", "t", "e", ".", "c", "s", "s">>,
    <<"/", "a", ".", "p", "n", "g">>,
    <<"/", "a", ".", "j", "p", "g">>,
    <<"/", "a", ".", "s", "v", "g">> }

\* a URL's pathname always begins with '/'
Pathnames == { b \o s : b \in BasePaths, s \in Suffixes }

Tokens == { <<"a">>, <<"b">> }

\* Headers.get returns null or the value with surrounding whitespace
\* stripped, so no value ends in a space
AuthorizationHeaders ==
    { None, Some(<<>>) }
        \cup { Some(<<"B", "e", "a", "r", "e", "r", " ">> \o t) : t \in Tokens }
        \cup { Some(<<"B", "a", "s", "i", "c", " ", "a">>), Some(<<"b", "e", "a", "r", "e", "r", " ", "a">>) }

AuthCookies == { None, Some(<<>>) } \cup { Some(t) : t \in Tokens }

Roles == { "worker", "doctor", "admin", "nurse" }

Users == { [userId |-> "u1", email |-> "u1@example.org"],
           [userId |-> "u2", email |-> "u2@example.org"] }

PermissionSets == {
    {},
    { "read:own_profile", "read:own_documents" },
    { "read:patient_profiles", "read:patient_documents" },
    { "read:all_users" } }

Payloads == { [userId |-> u.userId, role |-> r, email |-> u.email,
               permissions |-> ps] :
              u \in Users, r \in Roles, ps \in PermissionSets }

\* TokenManager.verifyToken(token): null or a payload
VerifyResults == { None } \cup { Some(p) : p \in Payloads }

\* The Permission Table: entries in declaration order, keys distinct
RouteKeys == {
    <<"/", "a", "p", "i", "/", "w", "o", "r", "k", "e", "r", "s">>,
    <<"/", "a", "p", "i", "/", "w", "o", "r", "k", "e", "r", "s", "/", "4", "2", "/", "d", "o", "c", "u", "m", "e", "n", "t", "s">>,
    <<"/", "a", "d", "m", "i", "n">> }

RoutePermissionLists == {
    << "read:own_profile" >>,
    << "read:all_users", "read:patient_profiles" >> }

RouteEntries == [route : RouteKeys, permissions : RoutePermissionLists]

PermissionTables ==
    { t \in UNION { [1..n -> RouteEntries] : n \in 0..MaxTable } :
        \A i, j \in DOMAIN t : i # j => t[i].route # t[j].route }

----------------------------------------------------------------------------
(* The state machine. *)

\* before middleware has answered
NoResponse ==
    [kind |-> "pending", status |-> 0, error |-> "", headers |-> {},
     location |-> "", redirect |-> None]

\* A request has arrived and nothing has run yet.  The gateway keeps nothing
\* from one request to the next, so a behaviour is one invocation.
Init ==
    /\ ROUTE_PERMISSIONS \in PermissionTables
    /\ pathname \in Pathnames
    /\ authorization \in AuthorizationHeaders
    /\ auth_token \in AuthCookies
    /\ token = None
    /\ verifyCalls = <<>>
    /\ response = NoResponse
    /\ requiredPermissions = <<>>
    /\ op = "init"

\* the request goes through middleware, if config.matcher selects its path
HandleRequest ==
    /\ op = "init"
    /\ matcher(pathname)
    /\ \E verdict \in (IF callsVerifier(pathname, authorization, auth_token)
                       THEN VerifyResults ELSE { None }) :
        LET r == middleware(pathname, authorization, auth_token, verdict) IN
        /\ token' = r.token
        /\ verifyCalls' = r.verifyCalls
        /\ response' = r.response
        /\ op' = "middleware"
    /\ UNCHANGED <<ROUTE_PERMISSIONS, pathname, authorization, auth_token,
                   requiredPermissions>>

Next == HandleRequest

Spec == Init /\ [][Next]_vars

\* getRoutePermissions applied to the path
ResolveRoute ==
    /\ op = "init"
    /\ requiredPermissions' = getRoutePermissions(pathname)
    /\ op' = "getRoutePermissions"
    /\ UNCHANGED <<ROUTE_PERMISSIONS, pathname, authorization, auth_token,
                   token, verifyCalls, response>>

SpecResolver == Init /\ [][ResolveRoute]_vars

\* the token extraction applied to the header and the cookie
ExtractCredential ==
    /\ op = "init"
    /\ token' = extractToken(authorization, auth_token)
    /\ op' = "extractToken"
    /\ UNCHANGED <<ROUTE_PERMISSIONS, pathname, authorization, auth_token,
                   verifyCalls, response, requiredPermissions>>

SpecExtractor == Init /\ [][ExtractCredential]_vars

----------------------------------------------------------------------------
(* The claims. *)

\* C5: a path that contains '_next' or 'favicon', ends in .js, .css, .png,
\* .jpg or .svg, or equals or is string-prefixed by an entry of PUBLIC_ROUTES
\* is let through without identity headers, whatever the Authorization
\* header and the auth_token cookie hold, and the verifier is not consulted.
C5_ExemptAlwaysAllowed ==
    ( /\ op = "middleware"
      /\ \/ includes(pathname, <<"_", "n", "e", "x", "t">>)
         \/ includes(pathname, <<"f", "a", "v", "i", "c", "o", "n">>)
         \/ \E ext \in { <<".", "j", "s">>, <<".", "c", "s", "s">>, <<".", "p", "n", "g">>, <<".", "j", "p", "g">>, <<".", "s", "v", "g">> } :
                endsWith(pathname, ext)
         \/ \E i \in DOMAIN PUBLIC_ROUTES :
                \/ pathname = PUBLIC_ROUTES[i]
                \/ /\ Len(PUBLIC_ROUTES[i]) <= Len(pathname)
                   /\ \A k \in 1..Len(PUBLIC_ROUTES[i]) :
                          pathname[k] = PUBLIC_ROUTES[i][k] )
    => /\ response.kind = "next"
       /\ response.headers = {}
       /\ verifyCalls = <<>>

\* C5 happens: a request under the public prefix '/help' that carries both a
\* Bearer header and a cookie has been let through.
C5_Witness ==
    /\ op = "middleware"
    /\ pathname = <<"/", "h", "e", "l", "p", "/">>
    /\ authorization = Some(<<"B", "e", "a", "r", "e", "r", " ", "a">>)
    /\ auth_token = Some(<<"b">>)
    /\ response.kind = "next"

\* C6: getRoutePermissions returns the set of the entry whose key equals the
\* path; failing that, of the first entry in declaration order whose key is a
\* prefix of the path, later and longer prefixes notwithstanding; failing
\* that, what the structural rules give, which is the empty set outside the
\* three API sub-trees.
C6_ResolutionOrder ==
    op = "getRoutePermissions" =>
        LET exact == { i \in DOMAIN ROUTE_PERMISSIONS :
                           ROUTE_PERMISSIONS[i].route = pathname }
            prefixes == { i \in DOMAIN ROUTE_PERMISSIONS :
                              startsWith(pathname, ROUTE_PERMISSIONS[i].route) }
        IN  /\ \A i \in exact :
                   requiredPermissions = ROUTE_PERMISSIONS[i].permissions
            /\ exact = {} =>
                   \A i \in prefixes :
                       (\A j \in prefixes : i <= j) =>
                           requiredPermissions = ROUTE_PERMISSIONS[i].permissions
            /\ prefixes = {} =>
                   /\ requiredPermissions \in
                          { <<"read:own_documents", "read:patient_documents">>,
                            <<"read:own_profile", "read:patient_profiles">>,
                            <<"read:patient_profiles">>,
                            <<"read:all_users">>,
                            <<>> }
                   /\ ( /\ ~startsWith(pathname, <<"/", "a", "p", "i", "/", "w", "o", "r", "k", "e", "r", "s", "/">>)
                        /\ ~startsWith(pathname, <<"/", "a", "p", "i", "/", "d", "o", "c", "t", "o", "r", "s", "/">>)
                        /\ ~startsWith(pathname, <<"/", "a", "p", "i", "/", "a", "d", "m", "i", "n", "/">>) )
                      => requiredPermissions = <<>>

\* C6 happens: the path has an exact entry declared after an entry that is a
\* prefix of it, a structural rule matches it too, and the exact entry's set,
\* which differs from the prefix entry's, was returned.
C6_Witness ==
    /\ op = "getRoutePermissions"
    /\ pathname = <<"/", "a", "p", "i", "/", "w", "o", "r", "k", "e", "r", "s", "/", "4", "2", "/", "d", "o", "c", "u", "m", "e", "n", "t", "s">>
    /\ Len(ROUTE_PERMISSIONS) = 2
    /\ ROUTE_PERMISSIONS[1].route = <<"/", "a", "p", "i", "/", "w", "o", "r", "k", "e", "r", "s">>
    /\ ROUTE_PERMISSIONS[2].route = pathname
    /\ ROUTE_PERMISSIONS[1].permissions # ROUTE_PERMISSIONS[2].permissions
    /\ requiredPermissions = ROUTE_PERMISSIONS[2].permissions

\* C7: for a path that no key of the Permission Table equals or prefixes,
\* getRoutePermissions gives the documents pair under '/api/workers/' when the
\* path contains '/documents' and the profile pair otherwise, patient_profiles
\* under '/api/doctors/', all_users under '/api/admin/', and the empty set
\* everywhere else.
C7_StructuralRules ==
    ( /\ op = "getRoutePermissions"
      /\ \A i \in DOMAIN ROUTE_PERMISSIONS :
             ~startsWith(pathname, ROUTE_PERMISSIONS[i].route) )
    => LET workers == startsWith(pathname, <<"/", "a", "p", "i", "/", "w", "o", "r", "k", "e", "r", "s", "/">>)
           doctors == startsWith(pathname, <<"/", "a", "p", "i", "/", "d", "o", "c", "t", "o", "r", "s", "/">>)
           admin == startsWith(pathname, <<"/", "a", "p", "i", "/", "a", "d", "m", "i", "n", "/">>)
           documents == includes(pathname, <<"/", "d", "o", "c", "u", "m", "e", "n", "t", "s">>)
       IN  /\ workers /\ documents =>
               requiredPermissions = <<"read:own_documents", "read:patient_documents">>
           /\ workers /\ ~documents =>
               requiredPermissions = <<"read:own_profile", "read:patient_profiles">>
           /\ doctors => requiredPermissions = <<"read:patient_profiles">>
           /\ admin => requiredPermissions = <<"read:all_users">>
           /\ ~workers /\ ~doctors /\ ~admin => requiredPermissions = <<>>
           /\ pathname = <<"/", "a", "p", "i", "/", "w", "o", "r", "k", "e", "r", "s", "/", "4", "2", "/", "d", "o", "c", "u", "m", "e", "n", "t", "s">> =>
               requiredPermissions = <<"read:own_documents", "read:patient_documents">>
           /\ pathname = <<"/", "a", "p", "i", "/", "a", "d", "m", "i", "n", "/", "s", "t", "a", "t", "s">> =>
               requiredPermissions = <<"read:all_users">>

\* C7 happens: '/api/workers/42/documents' was resolved against a non-empty
\* table none of whose keys matches it, and the documents pair came back.
C7_Witness ==
    /\ op = "getRoutePermissions"
    /\ pathname = <<"/", "a", "p", "i", "/", "w", "o", "r", "k", "e", "r", "s", "/", "4", "2", "/", "d", "o", "c", "u", "m", "e", "n", "t", "s">>
    /\ Len(ROUTE_PERMISSIONS) > 0
    /\ \A i \in DOMAIN ROUTE_PERMISSIONS :
           ~startsWith(pathname, ROUTE_PERMISSIONS[i].route)
    /\ requiredPermissions = <<"read:own_documents", "read:patient_documents">>

C9_AuthOnlyRequiresAuthentication ==
    ( /\ op = "middleware"
      /\ \/ pathname = <<"/", "a", "p", "i", "/", "a", "u", "t", "h", "/", "v", "e", "r", "i", "f", "y">>
         \/ startsWith(pathname, <<"/", "a", "p", "i", "/", "a", "u", "t", "h", "/", "v", "e", "r", "i", "f", "y">>) )
    => /\ response.kind = "next" =>
              /\ verifyCalls # <<>>
              /\ verifyCalls[1].result # None
              /\ response.headers = userHeaders(verifyCalls[1].result[1])
       /\ Falsy(extractToken(authorization, auth_token)) =>
              response = NextResponse_json("Authentication required", 401)
       /\ (verifyCalls # <<>> /\ verifyCalls[1].result = None) =>
              response = NextResponse_json("Invalid or expired token", 401)

=============================================================================
